---- MODULE Spec2Model ----
(***************************************************************************)
(* PropertySelection (model/PropertySelection.js): a selection bound to    *)
(* one property, its predicate and transform algebra, its JSON form, its   *)
(* memoized fragments and the coordinate adapters that write its fields.   *)
(*                                                                         *)
(* The caller holds selections in two variables, "a" and "b" (sels); ret   *)
(* is the outcome of the last call: the receiver itself, a new instance,   *)
(* the null selection, a plain value or a thrown error.                    *)
(***************************************************************************)
EXTENDS Integers, Sequences, FiniteSets, TLC

VARIABLES sels, ret

vars == <<sels, ret>>

\* largest character offset the caller passes
MaxOffset == 3

-----------------------------------------------------------------------------
(* JavaScript values of the offset fields and their operators *)

Num(n) == [t |-> "number", v |-> n]

undefined == [t |-> "undefined", v |-> 0]

\* NaN is a number for lodash isNumber and typeof
NaN == [t |-> "NaN", v |-> 0]

isNumber(x) == x.t \in {"number", "NaN"}

\* relational operators: undefined converts to NaN, and NaN compares false
Gt(x, y) == x.t = "number" /\ y.t = "number" /\ x.v > y.v

Lt(x, y) == x.t = "number" /\ y.t = "number" /\ x.v < y.v

Ge(x, y) == x.t = "number" /\ y.t = "number" /\ x.v >= y.v

Le(x, y) == x.t = "number" /\ y.t = "number" /\ x.v <= y.v

\* ===
StrictEq(x, y) == x.t # "NaN" /\ x = y

MathMin(x, y) ==
  IF x.t = "number" /\ y.t = "number" THEN (IF x.v <= y.v THEN x ELSE y) ELSE NaN

MathMax(x, y) ==
  IF x.t = "number" /\ y.t = "number" THEN (IF x.v >= y.v THEN x ELSE y) ELSE NaN

\* Boolean(reverse): undefined and false are falsy
Boolean(x) == IF x \in {"undefined", "false"} THEN "false" ELSE "true"

\* lodash isEqual on paths: deep equality of the arrays
isEqual(p, q) == p = q

\* the path argument left out
undefinedPath == << >>

-----------------------------------------------------------------------------
(* outcomes of a call *)

ReturnThis == [kind |-> "this"]

ReturnNew(s) == [kind |-> "new", sel |-> s]

ReturnValue(x) == [kind |-> "value", val |-> x]

Throw(msg) == [kind |-> "throw", error |-> msg]

\* Selection.nullSelection, the shared singleton
nullSelection == [type |-> "null"]

ReturnNull == [kind |-> "null"]

isNull(s) == s.type = "null"

isPropertySelection(s) == s.type = "property"

\* neither a PropertySelection nor the null selection is a ContainerSelection
isContainerSelection(s) == FALSE

-----------------------------------------------------------------------------
(* PropertySelection *)

constructor(path, startOffset, endOffset, reverse, containerId, surfaceId) ==
  IF path = undefinedPath \/ ~isNumber(startOffset)
  THEN Throw("Invalid arguments: path and startOffset are mandatory")
  ELSE ReturnNew([type |-> "property",
                  path |-> path,
                  startOffset |-> startOffset,
                  endOffset |-> endOffset,
                  reverse |-> Boolean(reverse),
                  containerId |-> containerId,
                  surfaceId |-> surfaceId,
                  fragments |-> << >>,
                  doc |-> "undefined"])

JSONKeys ==
  {"type", "path", "startOffset", "endOffset", "reverse", "containerId", "surfaceId"}

\* toJSON that leaves surfaceId out
toJSONNoSurface(self) ==
  [own |-> JSONKeys \ {"surfaceId"},
   type |-> "property",
   path |-> self.path,
   startOffset |-> self.startOffset,
   endOffset |-> self.endOffset,
   reverse |-> self.reverse,
   containerId |-> self.containerId]

toJSON(self) ==
  [own |-> JSONKeys,
   type |-> "property",
   path |-> self.path,
   startOffset |-> self.startOffset,
   endOffset |-> self.endOffset,
   reverse |-> self.reverse,
   containerId |-> self.containerId,
   surfaceId |-> self.surfaceId]

isCollapsed(self) == StrictEq(self.startOffset, self.endOffset)

\* Selection.attach(doc)
attach(sel, doc) == [sel EXCEPT !.doc = doc]

createWithNewRange(self, startOffset, endOffset) ==
  LET r == constructor(self.path, startOffset, endOffset, "false",
                       self.containerId, self.surfaceId)
  IN  IF r.kind = "throw" THEN r
      ELSE IF self.doc # "undefined" THEN ReturnNew(attach(r.sel, self.doc))
      ELSE r

collapse(self, direction) ==
  LET offset == IF direction = "left" THEN self.startOffset ELSE self.endOffset
  IN  createWithNewRange(self, offset, offset)

\* isInsideOf whose strict case admits equal boundaries
isInsideOfBoundary(self, other, strict) ==
  IF isNull(other) THEN FALSE
  ELSE isEqual(self.path, other.path)
       /\ Ge(self.startOffset, other.startOffset)
       /\ Le(self.endOffset, other.endOffset)

isInsideOf(self, other, strict) ==
  IF isNull(other) THEN FALSE
  ELSE IF strict
  THEN isEqual(self.path, other.path)
       /\ Gt(self.startOffset, other.startOffset)
       /\ Lt(self.endOffset, other.endOffset)
  ELSE isEqual(self.path, other.path)
       /\ Ge(self.startOffset, other.startOffset)
       /\ Le(self.endOffset, other.endOffset)

contains(self, other, strict) ==
  IF isNull(other) THEN FALSE ELSE isInsideOf(other, self, strict)

\* overlaps whose strict case tests one side only
overlapsOneSided(self, other, strict) ==
  IF isNull(other) THEN FALSE
  ELSE IF ~isEqual(self.path, other.path) THEN FALSE
  ELSE IF strict
  THEN ~(Ge(self.startOffset, other.endOffset) \/ Lt(self.endOffset, other.startOffset))
  ELSE ~(Gt(self.startOffset, other.endOffset) \/ Lt(self.endOffset, other.startOffset))

overlaps(self, other, strict) ==
  IF isNull(other) THEN FALSE
  ELSE IF ~isEqual(self.path, other.path) THEN FALSE
  ELSE IF strict
  THEN ~(Ge(self.startOffset, other.endOffset) \/ Le(self.endOffset, other.startOffset))
  ELSE ~(Gt(self.startOffset, other.endOffset) \/ Lt(self.endOffset, other.startOffset))

\* expand with min and max exchanged
expandMaxMin(self, other) ==
  IF isNull(other) THEN ReturnThis
  ELSE IF ~isEqual(self.path, other.path)
  THEN Throw("Can not expand PropertySelection to a different property.")
  ELSE createWithNewRange(self,
                          MathMax(self.startOffset, other.startOffset),
                          MathMin(self.endOffset, other.endOffset))

\* expand without the path check
expandAnyPath(self, other) ==
  IF isNull(other) THEN ReturnThis
  ELSE createWithNewRange(self,
                          MathMin(self.startOffset, other.startOffset),
                          MathMax(self.endOffset, other.endOffset))

expand(self, other) ==
  IF isNull(other) THEN ReturnThis
  ELSE IF ~isEqual(self.path, other.path)
  THEN Throw("Can not expand PropertySelection to a different property.")
  ELSE createWithNewRange(self,
                          MathMin(self.startOffset, other.startOffset),
                          MathMax(self.endOffset, other.endOffset))

\* truncateWith that cuts a left-straddling selection at the other's end
truncateWithOtherEnd(self, other) ==
  IF isNull(other) THEN ReturnThis
  ELSE IF isInsideOf(other, self, TRUE)
  THEN Throw("Can not truncate with a contained selections")
  ELSE IF ~overlaps(self, other, FALSE) THEN ReturnThis
  ELSE IF ~isPropertySelection(other) THEN ReturnThis
  ELSE
    LET otherStartOffset == other.startOffset
        otherEndOffset == other.endOffset
    IN  IF Gt(self.startOffset, otherStartOffset) /\ Gt(self.endOffset, otherEndOffset)
        THEN createWithNewRange(self, otherEndOffset, self.endOffset)
        ELSE IF Lt(self.startOffset, otherStartOffset) /\ Lt(self.endOffset, otherEndOffset)
        THEN createWithNewRange(self, self.startOffset, otherEndOffset)
        ELSE IF StrictEq(self.startOffset, otherStartOffset)
        THEN IF Le(self.endOffset, otherEndOffset)
             THEN ReturnNull
             ELSE createWithNewRange(self, otherEndOffset, self.endOffset)
        ELSE IF StrictEq(self.endOffset, otherEndOffset)
        THEN IF Ge(self.startOffset, otherStartOffset)
             THEN ReturnNull
             ELSE createWithNewRange(self, self.startOffset, otherStartOffset)
        ELSE IF contains(other, self, FALSE)
        THEN ReturnNull
        ELSE Throw("Illegal state.")

\* truncateWith without the test for a contained selection
truncateWithUnguarded(self, other) ==
  IF isNull(other) THEN ReturnThis
  ELSE IF ~overlaps(self, other, FALSE) THEN ReturnThis
  ELSE IF ~isPropertySelection(other) THEN ReturnThis
  ELSE
    LET otherStartOffset == other.startOffset
        otherEndOffset == other.endOffset
    IN  IF Gt(self.startOffset, otherStartOffset) /\ Gt(self.endOffset, otherEndOffset)
        THEN createWithNewRange(self, otherEndOffset, self.endOffset)
        ELSE IF Lt(self.startOffset, otherStartOffset) /\ Lt(self.endOffset, otherEndOffset)
        THEN createWithNewRange(self, self.startOffset, otherStartOffset)
        ELSE IF StrictEq(self.startOffset, otherStartOffset)
        THEN IF Le(self.endOffset, otherEndOffset)
             THEN ReturnNull
             ELSE createWithNewRange(self, otherEndOffset, self.endOffset)
        ELSE IF StrictEq(self.endOffset, otherEndOffset)
        THEN IF Ge(self.startOffset, otherStartOffset)
             THEN ReturnNull
             ELSE createWithNewRange(self, self.startOffset, otherStartOffset)
        ELSE IF contains(other, self, FALSE)
        THEN ReturnNull
        ELSE Throw("Illegal state.")

truncateWith(self, other) ==
  IF isNull(other) THEN ReturnThis
  ELSE IF isInsideOf(other, self, TRUE)
  THEN Throw("Can not truncate with a contained selections")
  ELSE IF ~overlaps(self, other, FALSE) THEN ReturnThis
  ELSE IF ~isPropertySelection(other) THEN ReturnThis
  ELSE
    LET otherStartOffset == other.startOffset
        otherEndOffset == other.endOffset
    IN  IF Gt(self.startOffset, otherStartOffset) /\ Gt(self.endOffset, otherEndOffset)
        THEN createWithNewRange(self, otherEndOffset, self.endOffset)
        ELSE IF Lt(self.startOffset, otherStartOffset) /\ Lt(self.endOffset, otherEndOffset)
        THEN createWithNewRange(self, self.startOffset, otherStartOffset)
        ELSE IF StrictEq(self.startOffset, otherStartOffset)
        THEN IF Le(self.endOffset, otherEndOffset)
             THEN ReturnNull
             ELSE createWithNewRange(self, otherEndOffset, self.endOffset)
        ELSE IF StrictEq(self.endOffset, otherEndOffset)
        THEN IF Ge(self.startOffset, otherStartOffset)
             THEN ReturnNull
             ELSE createWithNewRange(self, self.startOffset, otherStartOffset)
        ELSE IF contains(other, self, FALSE)
        THEN ReturnNull
        ELSE Throw("Illegal state.")

\* Selection.Cursor and Selection.Fragment
Cursor(path, offset) == [type |-> "cursor", path |-> path, offset |-> offset]

Fragment(path, startOffset, endOffset) ==
  [type |-> "fragment", path |-> path, startOffset |-> startOffset, endOffset |-> endOffset]

\* the value getFragments computes when nothing is memoized
newFragments(self) ==
  IF isCollapsed(self)
  THEN <<Cursor(self.path, self.startOffset)>>
  ELSE <<Fragment(self.path, self.startOffset, self.endOffset)>>

\* json.hasOwnProperty(key)
hasOwnProperty(json, key) == key \in json.own

\* json[key]: a key the object does not have reads as absent
prop(json, key, absent) == IF key \in json.own THEN json[key] ELSE absent

fromJSON(json) ==
  LET path == prop(json, "path", undefinedPath)
      startOffset == prop(json, "startOffset", undefined)
      endOffset == IF hasOwnProperty(json, "endOffset")
                   THEN json.endOffset ELSE prop(json, "startOffset", undefined)
      reverse == prop(json, "reverse", "undefined")
      containerId == prop(json, "containerId", "undefined")
      surfaceId == prop(json, "surfaceId", "undefined")
  IN  constructor(path, startOffset, endOffset, reverse, containerId, surfaceId)

-----------------------------------------------------------------------------
(* what the caller passes *)

Slots == {"a", "b"}

Paths == {<<"p1", "content">>, <<"p2", "content">>}

Offsets == {Num(n) : n \in 0..MaxOffset}

\* reverse, containerId, surfaceId
Metas == {<<"undefined", "undefined", "undefined">>, <<"true", "body", "editor">>}

\* {type: 'property', path, startOffset}, and the same without startOffset
ShortJSONs ==
  {[own |-> {"type", "path", "startOffset"}, type |-> "property", path |-> p, startOffset |-> s]
     : p \in Paths, s \in Offsets \cup {NaN}}
  \cup {[own |-> {"type", "path"}, type |-> "property", path |-> p] : p \in Paths}

Operand(j) == IF j = "null" THEN nullSelection ELSE sels[j]

Call(op, this, other, arg, out) ==
  [op |-> op, this |-> this, other |-> other, arg |-> arg, out |-> out]

-----------------------------------------------------------------------------
(* the calls *)

Init ==
  /\ sels = [i \in {} |-> nullSelection]
  /\ ret = Call("none", "-", "-", "-", ReturnNull)

\* i = new PropertySelection(path, startOffset, endOffset, reverse, containerId, surfaceId)
Construct(i, path, startOffset, endOffset, meta) ==
  /\ i \notin DOMAIN sels
  /\ LET r == constructor(path, startOffset, endOffset, meta[1], meta[2], meta[3])
     IN  /\ ret' = Call("new", i, "-",
                        [path |-> path, startOffset |-> startOffset,
                         endOffset |-> endOffset, meta |-> meta], r)
         /\ sels' = IF r.kind = "new"
                    THEN [k \in DOMAIN sels \cup {i} |-> IF k = i THEN r.sel ELSE sels[k]]
                    ELSE sels

\* sels[i].attach(doc)
Attach(i) ==
  /\ i \in DOMAIN sels
  /\ sels[i].doc = "undefined"
  /\ sels' = [sels EXCEPT ![i] = attach(sels[i], "doc")]
  /\ ret' = Call("attach", i, "-", "-", ReturnThis)

ToJSON(i) ==
  /\ i \in DOMAIN sels
  /\ ret' = Call("toJSON", i, "-", "-", ReturnValue(toJSON(sels[i])))
  /\ UNCHANGED sels

\* PropertySelection.fromJSON(json); ret.this names the selection json was taken from
FromJSON(json) ==
  /\ ret' = Call("fromJSON", IF ret.op = "toJSON" /\ json = ret.out.val THEN ret.this ELSE "-",
                 "-", json, fromJSON(json))
  /\ UNCHANGED sels

\* PropertySelection.fromJSON(sels[i].toJSON()), the second half
RoundTrip(i) ==
  /\ ret.op = "toJSON"
  /\ ret.this = i
  /\ FromJSON(ret.out.val)

IsCollapsed(i) ==
  /\ i \in DOMAIN sels
  /\ ret' = Call("isCollapsed", i, "-", "-", ReturnValue(isCollapsed(sels[i])))
  /\ UNCHANGED sels

\* collapse that moves the receiver's own offsets and returns the receiver
CollapseInPlace(i, direction) ==
  /\ i \in DOMAIN sels
  /\ LET offset == IF direction = "left" THEN sels[i].startOffset ELSE sels[i].endOffset
     IN  sels' = [sels EXCEPT ![i].startOffset = offset, ![i].endOffset = offset]
  /\ ret' = Call("collapse", i, "-", direction, ReturnThis)

Collapse(i, direction) ==
  /\ i \in DOMAIN sels
  /\ ret' = Call("collapse", i, "-", direction, collapse(sels[i], direction))
  /\ UNCHANGED sels

Overlaps(i, j, strict) ==
  /\ i \in DOMAIN sels
  /\ j \in DOMAIN sels \cup {"null"}
  /\ ret' = Call("overlaps", i, j, strict, ReturnValue(overlaps(sels[i], Operand(j), strict)))
  /\ UNCHANGED sels

Expand(i, j) ==
  /\ i \in DOMAIN sels
  /\ j \in DOMAIN sels \cup {"null"}
  /\ ret' = Call("expand", i, j, "-", expand(sels[i], Operand(j)))
  /\ UNCHANGED sels

TruncateWith(i, j) ==
  /\ i \in DOMAIN sels
  /\ j \in DOMAIN sels \cup {"null"}
  /\ ret' = Call("truncateWith", i, j, "-", truncateWith(sels[i], Operand(j)))
  /\ UNCHANGED sels

CreateWithNewRange(i, startOffset, endOffset) ==
  /\ i \in DOMAIN sels
  /\ ret' = Call("createWithNewRange", i, "-",
                 [startOffset |-> startOffset, endOffset |-> endOffset],
                 createWithNewRange(sels[i], startOffset, endOffset))
  /\ UNCHANGED sels

\* sels[i].getFragments(): the memoized array when there is one
GetFragments(i) ==
  /\ i \in DOMAIN sels
  /\ IF sels[i].fragments # << >>
     THEN /\ ret' = Call("getFragments", i, "-", "-", ReturnValue(sels[i].fragments))
          /\ UNCHANGED sels
     ELSE /\ sels' = [sels EXCEPT ![i].fragments = newFragments(sels[i])]
          /\ ret' = Call("getFragments", i, "-", "-", ReturnValue(newFragments(sels[i])))

\* sels[i].start.offset = offset, sels[i].end.offset = offset
SetOffset(i, coor, offset) ==
  /\ i \in DOMAIN sels
  /\ sels' = IF coor = "start"
             THEN [sels EXCEPT ![i].startOffset = offset]
             ELSE [sels EXCEPT ![i].endOffset = offset]
  /\ ret' = Call("setOffset", i, "-", [coor |-> coor, offset |-> offset], ReturnValue(offset))

\* sels[i].start.path = path, sels[i].end.path = path
SetPath(i, coor, path) ==
  /\ i \in DOMAIN sels
  /\ sels' = [sels EXCEPT ![i].path = path]
  /\ ret' = Call("setPath", i, "-", [coor |-> coor, path |-> path], ReturnValue(path))

\* the binary algebra on two selections, both reverse and in one container and surface
Next ==
  \/ \E i \in Slots, p \in Paths \cup {undefinedPath}, s \in Offsets \cup {undefined},
        e \in Offsets \cup {undefined} : Construct(i, p, s, e, <<"true", "body", "editor">>)
  \/ \E i \in Slots, d \in {"left", "right"} : Collapse(i, d)
  \/ \E i \in Slots, j \in Slots \cup {"null"}, strict \in BOOLEAN : Overlaps(i, j, strict)
  \/ \E i \in Slots, j \in Slots \cup {"null"} : Expand(i, j)
  \/ \E i \in Slots, j \in Slots \cup {"null"} : TruncateWith(i, j)

Spec == Init /\ [][Next]_vars

\* one selection: construction, attachment and the JSON form
NextJSON ==
  \/ \E p \in Paths \cup {undefinedPath}, s \in Offsets \cup {undefined, NaN},
        e \in Offsets \cup {undefined, NaN}, m \in Metas : Construct("a", p, s, e, m)
  \/ Attach("a")
  \/ ToJSON("a")
  \/ \E json \in ShortJSONs : FromJSON(json)
  \/ RoundTrip("a")
  \/ IsCollapsed("a")
  \/ \E s \in Offsets, e \in Offsets : CreateWithNewRange("a", s, e)

SpecJSON == Init /\ [][NextJSON]_vars

\* one selection: its fragments and the writes through its start and end adapters
NextFragments ==
  \/ \E p \in Paths, s \in Offsets, e \in Offsets \cup {undefined} :
        Construct("a", p, s, e, <<"undefined", "undefined", "undefined">>)
  \/ GetFragments("a")
  \/ \E c \in {"start", "end"}, o \in Offsets : SetOffset("a", c, o)
  \/ \E c \in {"start", "end"}, p \in Paths : SetPath("a", c, p)

SpecFragments == Init /\ [][NextFragments]_vars

-----------------------------------------------------------------------------
(* the claims *)

\* C1: truncateWith on two same-path selections with startOffset <= endOffset,
\* other not strictly inside this, returns this when they do not overlap, the
\* null selection when other covers this, [other.end, this.end] when other
\* starts at or before this, and [this.start, other.start] otherwise.
C1_TruncateReference ==
  (ret.op = "truncateWith" /\ ret.other # "null") =>
    LET this == sels[ret.this]
        other == sels[ret.other]
        ts == this.startOffset.v
        te == this.endOffset.v
        os == other.startOffset.v
        oe == other.endOffset.v
    IN  (/\ this.path = other.path
         /\ Le(this.startOffset, this.endOffset)
         /\ Le(other.startOffset, other.endOffset)
         /\ ~(os > ts /\ oe < te))
        => IF ts > oe \/ te < os THEN ret.out.kind = "this"
           ELSE IF os <= ts /\ te <= oe THEN ret.out.kind = "null"
           ELSE IF os <= ts
           THEN /\ ret.out.kind = "new"
                /\ ret.out.sel.startOffset = Num(oe)
                /\ ret.out.sel.endOffset = Num(te)
           ELSE /\ ret.out.kind = "new"
                /\ ret.out.sel.startOffset = Num(ts)
                /\ ret.out.sel.endOffset = Num(os)

\* a selection truncated with one that straddles its right end
C1_Witness ==
  /\ ret.op = "truncateWith"
  /\ ret.other # "null"
  /\ sels[ret.this].path = sels[ret.other].path
  /\ Lt(sels[ret.this].startOffset, sels[ret.other].startOffset)
  /\ Lt(sels[ret.other].startOffset, sels[ret.this].endOffset)
  /\ Lt(sels[ret.this].endOffset, sels[ret.other].endOffset)
  /\ ret.out.kind = "new"
  /\ ret.out.sel.startOffset = sels[ret.this].startOffset
  /\ ret.out.sel.endOffset = sels[ret.other].startOffset

\* C2: fromJSON(s.toJSON()) of a selection s with startOffset <= endOffset is a
\* selection with the path, startOffset, endOffset, reverse, containerId and
\* surfaceId of s.
C2_RoundTrip ==
  (ret.op = "fromJSON" /\ ret.this # "-") =>
    LET s == sels[ret.this]
    IN  Le(s.startOffset, s.endOffset) =>
          /\ ret.out.kind = "new"
          /\ ret.out.sel.path = s.path
          /\ ret.out.sel.startOffset = s.startOffset
          /\ ret.out.sel.endOffset = s.endOffset
          /\ ret.out.sel.reverse = s.reverse
          /\ ret.out.sel.containerId = s.containerId
          /\ ret.out.sel.surfaceId = s.surfaceId

\* a reverse selection with a container and a surface went through JSON
C2_Witness ==
  /\ ret.op = "fromJSON"
  /\ ret.this # "-"
  /\ Lt(sels[ret.this].startOffset, sels[ret.this].endOffset)
  /\ sels[ret.this].reverse = "true"
  /\ sels[ret.this].surfaceId = "editor"
  /\ ret.out.kind = "new"

\* C3 as stated: every instance, however it was built, has startOffset <= endOffset.
C3_EveryInstanceOrdered ==
  /\ \A i \in DOMAIN sels : Le(sels[i].startOffset, sels[i].endOffset)
  /\ ret.out.kind = "new" => Le(ret.out.sel.startOffset, ret.out.sel.endOffset)

\* C3 amended: the constructor stores the offsets it is given, in any order;
\* collapse, expand and truncateWith applied to selections with
\* startOffset <= endOffset return only selections with startOffset <= endOffset.
C3_OrderPreserved ==
  /\ (ret.op = "new" /\ ret.out.kind = "new") =>
        /\ ret.out.sel.startOffset = ret.arg.startOffset
        /\ ret.out.sel.endOffset = ret.arg.endOffset
  /\ (/\ ret.op \in {"collapse", "expand", "truncateWith"}
      /\ ret.out.kind = "new"
      /\ Le(sels[ret.this].startOffset, sels[ret.this].endOffset)
      /\ ret.other \in DOMAIN sels =>
           Le(sels[ret.other].startOffset, sels[ret.other].endOffset))
     => Le(ret.out.sel.startOffset, ret.out.sel.endOffset)

\* two ordered selections expanded to a range that is wider than either
C3_Witness ==
  /\ ret.op = "expand"
  /\ ret.other \in DOMAIN sels
  /\ Le(sels[ret.this].startOffset, sels[ret.this].endOffset)
  /\ Le(sels[ret.other].startOffset, sels[ret.other].endOffset)
  /\ ret.out.kind = "new"
  /\ Lt(ret.out.sel.startOffset, sels[ret.this].startOffset)
  /\ Gt(ret.out.sel.endOffset, sels[ret.other].endOffset)

C5_BothFail ==
  (/\ ret.op \in {"expand", "truncateWith"}
   /\ ret.other \in DOMAIN sels
   /\ sels[ret.other].path # sels[ret.this].path)
  => ret.out.kind = "throw"

\* C5 amended: expand with a property selection on another path fails with the
\* incompatible-path error; truncateWith with one returns the receiver itself.
C5_ExpandFailsTruncateReturnsThis ==
  (ret.other \in DOMAIN sels /\ sels[ret.other].path # sels[ret.this].path) =>
    /\ ret.op = "expand" =>
         ret.out = Throw("Can not expand PropertySelection to a different property.")
    /\ ret.op = "truncateWith" => ret.out = ReturnThis

\* expand was called across two paths
C5_Witness ==
  /\ ret.op = "expand"
  /\ ret.other \in DOMAIN sels
  /\ sels[ret.other].path # sels[ret.this].path
  /\ ret.out.kind = "throw"

\* C6: on the same path truncateWith fails with the unsupported-truncation error
\* exactly when other.startOffset > this.startOffset and
\* other.endOffset < this.endOffset, and it changes no field of either selection.
C6_ContainedFails ==
  [][(/\ ret'.op = "truncateWith"
      /\ ret'.other \in DOMAIN sels
      /\ sels[ret'.other].path = sels[ret'.this].path)
     => /\ sels' = sels
        /\ ret'.out = Throw("Can not truncate with a contained selections")
           <=> /\ Gt(sels[ret'.other].startOffset, sels[ret'.this].startOffset)
               /\ Lt(sels[ret'.other].endOffset, sels[ret'.this].endOffset)
    ]_vars

\* truncateWith was refused for a contained selection
C6_Witness ==
  /\ ret.op = "truncateWith"
  /\ ret.other \in DOMAIN sels
  /\ Gt(sels[ret.other].startOffset, sels[ret.this].startOffset)
  /\ Lt(sels[ret.other].endOffset, sels[ret.this].endOffset)
  /\ ret.out = Throw("Can not truncate with a contained selections")

\* C7: a selection built without endOffset, by the constructor or by fromJSON,
\* for any numeric startOffset, is collapsed and its fragments are one Cursor
\* at startOffset.
C7_CollapsedWithoutEndOffset ==
  /\ (ret.op = "new" /\ ret.out.kind = "new" /\ ret.arg.endOffset = undefined) =>
        /\ isCollapsed(ret.out.sel)
        /\ newFragments(ret.out.sel) = <<Cursor(ret.arg.path, ret.arg.startOffset)>>
  /\ (ret.op = "fromJSON" /\ ret.out.kind = "new" /\ "endOffset" \notin ret.arg.own) =>
        /\ isCollapsed(ret.out.sel)
        /\ newFragments(ret.out.sel) = <<Cursor(ret.arg.path, ret.arg.startOffset)>>

\* C8: overlaps is symmetric on two same-path selections with
\* startOffset <= endOffset, and two non-collapsed selections that touch at a
\* boundary overlap non-strictly but not strictly.
C8_OverlapsSymmetric ==
  (ret.op = "overlaps" /\ ret.other \in DOMAIN sels) =>
    LET a == sels[ret.this]
        b == sels[ret.other]
    IN  (/\ a.path = b.path
         /\ Le(a.startOffset, a.endOffset)
         /\ Le(b.startOffset, b.endOffset))
        => /\ ret.out.val = overlaps(b, a, ret.arg)
           /\ (/\ a.endOffset = b.startOffset
               /\ Lt(a.startOffset, a.endOffset)
               /\ Lt(b.startOffset, b.endOffset)) => ret.out.val = ~ret.arg
           /\ (/\ b.endOffset = a.startOffset
               /\ Lt(a.startOffset, a.endOffset)
               /\ Lt(b.startOffset, b.endOffset)) => ret.out.val = ~ret.arg

\* a strict overlap test of two selections that only touch
C8_Witness ==
  /\ ret.op = "overlaps"
  /\ ret.other \in DOMAIN sels
  /\ ret.arg = TRUE
  /\ sels[ret.this].path = sels[ret.other].path
  /\ Lt(sels[ret.this].startOffset, sels[ret.this].endOffset)
  /\ sels[ret.this].endOffset = sels[ret.other].startOffset
  /\ Lt(sels[ret.other].startOffset, sels[ret.other].endOffset)
  /\ ret.out.val = FALSE

\* C9: getFragments returns the decomposition of the fields as they are at the
\* time of the call: one Cursor when startOffset equals endOffset, else one Fragment.
C9_FragmentsCurrent ==
  ret.op = "getFragments" =>
    LET s == sels[ret.this]
    IN  ret.out.val = IF StrictEq(s.startOffset, s.endOffset)
                      THEN <<Cursor(s.path, s.startOffset)>>
                      ELSE <<Fragment(s.path, s.startOffset, s.endOffset)>>

\* C10: truncateWith on two selections with startOffset <= endOffset never fails
\* with 'Illegal state.'.
C10_NoIllegalState ==
  (/\ ret.op = "truncateWith"
   /\ ret.other \in DOMAIN sels
   /\ Le(sels[ret.this].startOffset, sels[ret.this].endOffset)
   /\ Le(sels[ret.other].startOffset, sels[ret.other].endOffset))
  => ret.out # Throw("Illegal state.")

\* the case analysis ran to its last test: this lies strictly inside other
C10_Witness ==
  /\ ret.op = "truncateWith"
  /\ ret.other \in DOMAIN sels
  /\ sels[ret.this].path = sels[ret.other].path
  /\ Gt(sels[ret.this].startOffset, sels[ret.other].startOffset)
  /\ Lt(sels[ret.this].endOffset, sels[ret.other].endOffset)
  /\ Le(sels[ret.this].startOffset, sels[ret.this].endOffset)
  /\ ret.out.kind = "null"

====
